---- MODULE Spec2Model ----
(***************************************************************************)
(* Model of packages/angular/cli/commands/config-impl.ts: the JSON path    *)
(* parser (parseJsonPath), the path accessors (getValueFromPath,           *)
(* setValueFromPath), the value normalizer (normalizeValue) and the        *)
(* command ConfigCommand (run, get, set).                                  *)
(*                                                                         *)
(* Strings of the program are modelled as sequences of one-character       *)
(* strings, so that splitting, matching, trimming and prefix tests are     *)
(* computed the way the code computes them.  A character that a string     *)
(* literal of this language cannot hold is written by its code point, as   *)
(* in "U+2028".                                                            *)
(***************************************************************************)
EXTENDS Integers, Sequences, FiniteSets, TLC

VARIABLES
  pc,         \* position of the running call / command
  path,       \* the path string (options.jsonPath), a sequence of characters
  root,       \* the in-memory document the accessors work on (config.value)
  root0,      \* the document as it was handed to the call
  objectPrototype, \* the own properties of Object.prototype
  newValue,   \* the JSON value to write (3rd argument of setValueFromPath)
  parsed,     \* outcome of the last parseJsonPath call
  getResult,  \* outcome of the last getValueFromPath call
  setResult,  \* outcome of the last setValueFromPath call
  raw,        \* options.value, the raw command-line value
  global,     \* options.global
  workspace,  \* what getWorkspace / getWorkspaceRaw find: a configuration or none
  schemaOk,   \* the verdict of validateWorkspace on the written document
  normalized, \* outcome of normalizeValue
  file,       \* content of the configuration file on disk
  exit,       \* how the command ended
  stages      \* the stages of ConfigCommand.set that have run, in order

vars == <<pc, path, root, root0, objectPrototype, newValue, parsed, getResult,
          setResult, raw, global, workspace, schemaOk, normalized, file, exit,
          stages>>

(***************************************************************************)
(* Bounds of the model.                                                    *)
(***************************************************************************)
MaxPathLen == 5

(***************************************************************************)
(* JavaScript values: the JSON values (JsonValue of @angular-devkit/core), *)
(* undefined, and what a property access can return besides them.  Every   *)
(* value is a record [t, v]; objects carry a function from keys (character *)
(* sequences) to values, arrays a sequence.                                *)
(***************************************************************************)
Undefined == [t |-> "undefined", v |-> 0]
Null      == [t |-> "null", v |-> 0]
Bool(b)   == [t |-> "boolean", v |-> b]
Num(n)    == [t |-> "number", v |-> n]
Str(s)    == [t |-> "string", v |-> s]
Arr(s)    == [t |-> "array", v |-> s]
Obj(f)    == [t |-> "object", v |-> f]

EmptyObj == Obj(<<>>)
EmptyArr == Arr(<<>>)

\* references to Object.prototype and to Array.prototype, and the
\* functions they hold
ObjectPrototype == [t |-> "prototype", v |-> 0]
ArrayPrototype == [t |-> "arrayprototype", v |-> 0]
Function(name) == [t |-> "function", v |-> name]

\* typeof value
TypeOf(value) ==
  IF value.t \in {"null", "array", "object", "prototype", "arrayprototype"}
  THEN "object" ELSE value.t

\* Array.isArray(value)
IsArray(value) == value.t \in {"array", "arrayprototype"}

\* value == undefined (loose equality: true of undefined and of null)
LooseUndefined(value) == value.t \in {"undefined", "null"}

(***************************************************************************)
(* String helpers: the JavaScript string operations the code uses.         *)
(***************************************************************************)
Min(S) == CHOOSE x \in S : \A y \in S : x <= y
Max(S) == CHOOSE x \in S : \A y \in S : x >= y

\* s.slice(from) with a 1-based first position
Tail_(s, from) == SubSeq(s, from, Len(s))

\* str.split(/\./g): the pieces between the dots, empty pieces included
RECURSIVE SplitDots(_)
SplitDots(s) ==
  LET dots == {i \in 1..Len(s) : s[i] = "."}
  IN IF dots = {} THEN <<s>>
     ELSE <<SubSeq(s, 1, Min(dots) - 1)>> \o SplitDots(Tail_(s, Min(dots) + 1))

\* str.split(']['): the pieces between the occurrences of "]["
RECURSIVE SplitBrackets(_)
SplitBrackets(s) ==
  LET seps == {i \in 1..(Len(s) - 1) : s[i] = "]" /\ s[i + 1] = "["}
  IN IF seps = {} THEN <<s>>
     ELSE <<SubSeq(s, 1, Min(seps) - 1)>> \o SplitBrackets(Tail_(s, Min(seps) + 2))

\* str.slice(1, -1)
Slice1(s) == SubSeq(s, 2, Len(s) - 1)

\* array.filter(fragment => !!fragment) over strings: drops the empty ones
RECURSIVE FilterTruthy(_)
FilterTruthy(seq) ==
  IF seq = <<>> THEN <<>>
  ELSE (IF Head(seq) = <<>> THEN <<>> ELSE <<Head(seq)>>) \o FilterTruthy(Tail(seq))

\* decimal numerals
Digits == {"0", "1", "2", "3", "4", "5", "6", "7", "8", "9"}

DigitVal(c) ==
  CASE c = "0" -> 0 [] c = "1" -> 1 [] c = "2" -> 2 [] c = "3" -> 3 [] c = "4" -> 4
    [] c = "5" -> 5 [] c = "6" -> 6 [] c = "7" -> 7 [] c = "8" -> 8 [] c = "9" -> 9

RECURSIVE DigitsToNat(_)
DigitsToNat(ds) ==
  IF ds = <<>> THEN 0
  ELSE 10 * DigitsToNat(SubSeq(ds, 1, Len(ds) - 1)) + DigitVal(ds[Len(ds)])

IsNumeral(text) == text # <<>> /\ \A i \in 1..Len(text) : text[i] \in Digits

DigitChar(d) ==
  CASE d = 0 -> "0" [] d = 1 -> "1" [] d = 2 -> "2" [] d = 3 -> "3" [] d = 4 -> "4"
    [] d = 5 -> "5" [] d = 6 -> "6" [] d = 7 -> "7" [] d = 8 -> "8" [] d = 9 -> "9"

\* String(n) for an integer n
RECURSIVE NatText(_)
NatText(n) ==
  IF n < 0 THEN <<"-">> \o NatText(0 - n)
  ELSE IF n < 10 THEN <<DigitChar(n)>>
  ELSE NatText(n \div 10) \o <<DigitChar(n % 10)>>

(***************************************************************************)
(* parseJsonPath.                                                          *)
(***************************************************************************)
NoMatch == [ok |-> FALSE, m1 |-> <<>>, m2 |-> <<>>]

\* the line terminators of the language: the characters "." does not match
LineTerminators == {"\n", "\r", "U+2028", "U+2029"}

\* fragment.match(/([^\[]+)((\[.*\])*)/): the leftmost match.  Group 1 is
\* the longest run of characters other than "[" starting at the first such
\* character; group 2 starts at the "[" that ends the run and, ".*" being
\* greedy but stopping at a line terminator, reaches to the last "]" before
\* the first line terminator that follows that "[" (empty when there is no
\* such "]").  The pattern is not anchored: what precedes and what follows
\* the match is ignored.  null when every character is "[".
FragmentMatch(fragment) ==
  LET names == {i \in 1..Len(fragment) : fragment[i] # "["}
  IN IF names = {} THEN NoMatch
     ELSE LET start  == Min(names)
              opens  == {i \in start..Len(fragment) : fragment[i] = "["}
              stop   == IF opens = {} THEN Len(fragment) + 1 ELSE Min(opens)
              breaks == {i \in (stop + 1)..Len(fragment) :
                           fragment[i] \in LineTerminators}
              reach  == IF breaks = {} THEN Len(fragment) ELSE Min(breaks) - 1
              closes == {i \in (stop + 1)..reach : fragment[i] = "]"}
          IN [ok |-> TRUE,
              m1 |-> SubSeq(fragment, start, stop - 1),
              m2 |-> IF closes = {} THEN <<>>
                     ELSE SubSeq(fragment, stop, Max(closes))]

\* the body of the while loop for one fragment: what it pushes on result
FragmentSteps(match) ==
  <<match.m1>> \o (IF match.m2 # <<>> THEN SplitBrackets(Slice1(match.m2)) ELSE <<>>)

\* the while loop: [threw, result]
RECURSIVE ParseLoop(_, _)
ParseLoop(fragments, result) ==
  IF fragments = <<>> THEN [threw |-> FALSE, result |-> result]
  ELSE LET match == FragmentMatch(Head(fragments))
       IN IF ~match.ok THEN [threw |-> TRUE, result |-> <<>>]
          ELSE ParseLoop(Tail(fragments), result \o FragmentSteps(match))

\* Every element of the returned array is a JavaScript string: the texts
\* between brackets are pushed as they are.
AsFragment(text) == Str(text)

\* parseJsonPath(path): [threw |-> TRUE] for Error('Invalid JSON path.'),
\* otherwise the fragments, each a JavaScript value
parseJsonPath(p) ==
  LET loop == ParseLoop(SplitDots(p), <<>>)
      kept == FilterTruthy(loop.result)
  IN [threw |-> loop.threw,
      fragments |-> [i \in 1..Len(kept) |-> AsFragment(kept[i])]]

(***************************************************************************)
(* Property access, value[current], and assignment, value[current] = x.    *)
(* The objects of a document are plain JavaScript objects: a property the  *)
(* object does not own is looked up on its prototype chain, which ends in  *)
(* Object.prototype, and "__proto__" is the accessor of Object.prototype   *)
(* that reads and replaces an object's prototype.  An object whose         *)
(* prototype was replaced keeps the new one under ProtoSlot, a key no path *)
(* can spell.  Object.prototype is one object shared by every object of    *)
(* the process: a value holds a reference to it (ObjectPrototype), its own *)
(* properties are kept apart (the variable objectPrototype, the parameter  *)
(* op of the operators below), so that a write through "__proto__" is seen *)
(* by every later read.                                                    *)
(***************************************************************************)
ProtoKey == <<"_", "_", "p", "r", "o", "t", "o", "_", "_">>
ProtoSlot == <<"[[Prototype]]">>
LengthKey == <<"l", "e", "n", "g", "t", "h">>

\* the methods every plain object inherits from Object.prototype
ObjectPrototypeMethods ==
  { <<"c", "o", "n", "s", "t", "r", "u", "c", "t", "o", "r">>,
    <<"t", "o", "S", "t", "r", "i", "n", "g">>,
    <<"t", "o", "L", "o", "c", "a", "l", "e", "S", "t", "r", "i", "n", "g">>,
    <<"v", "a", "l", "u", "e", "O", "f">>,
    <<"h", "a", "s", "O", "w", "n", "P", "r", "o", "p", "e", "r", "t", "y">>,
    <<"i", "s", "P", "r", "o", "t", "o", "t", "y", "p", "e", "O", "f">>,
    <<"p", "r", "o", "p", "e", "r", "t", "y", "I", "s", "E", "n", "u", "m", "e", "r", "a", "b", "l", "e">>,
    <<"_", "_", "d", "e", "f", "i", "n", "e", "G", "e", "t", "t", "e", "r", "_", "_">>,
    <<"_", "_", "d", "e", "f", "i", "n", "e", "S", "e", "t", "t", "e", "r", "_", "_">>,
    <<"_", "_", "l", "o", "o", "k", "u", "p", "G", "e", "t", "t", "e", "r", "_", "_">>,
    <<"_", "_", "l", "o", "o", "k", "u", "p", "S", "e", "t", "t", "e", "r", "_", "_">> }

\* the own data properties of Object.prototype when the process starts
ObjectPrototypeMembers == [k \in ObjectPrototypeMethods |-> Function(k)]

\* the methods of Array.prototype
ArrayPrototypeMethods ==
  { <<"c", "o", "n", "s", "t", "r", "u", "c", "t", "o", "r">>,
    <<"a", "t">>,
    <<"c", "o", "n", "c", "a", "t">>,
    <<"c", "o", "p", "y", "W", "i", "t", "h", "i", "n">>,
    <<"e", "n", "t", "r", "i", "e", "s">>,
    <<"e", "v", "e", "r", "y">>,
    <<"f", "i", "l", "l">>,
    <<"f", "i", "l", "t", "e", "r">>,
    <<"f", "i", "n", "d">>,
    <<"f", "i", "n", "d", "I", "n", "d", "e", "x">>,
    <<"f", "i", "n", "d", "L", "a", "s", "t">>,
    <<"f", "i", "n", "d", "L", "a", "s", "t", "I", "n", "d", "e", "x">>,
    <<"f", "l", "a", "t">>,
    <<"f", "l", "a", "t", "M", "a", "p">>,
    <<"f", "o", "r", "E", "a", "c", "h">>,
    <<"i", "n", "c", "l", "u", "d", "e", "s">>,
    <<"i", "n", "d", "e", "x", "O", "f">>,
    <<"j", "o", "i", "n">>,
    <<"k", "e", "y", "s">>,
    <<"l", "a", "s", "t", "I", "n", "d", "e", "x", "O", "f">>,
    <<"m", "a", "p">>,
    <<"p", "o", "p">>,
    <<"p", "u", "s", "h">>,
    <<"r", "e", "d", "u", "c", "e">>,
    <<"r", "e", "d", "u", "c", "e", "R", "i", "g", "h", "t">>,
    <<"r", "e", "v", "e", "r", "s", "e">>,
    <<"s", "h", "i", "f", "t">>,
    <<"s", "l", "i", "c", "e">>,
    <<"s", "o", "m", "e">>,
    <<"s", "o", "r", "t">>,
    <<"s", "p", "l", "i", "c", "e">>,
    <<"t", "o", "L", "o", "c", "a", "l", "e", "S", "t", "r", "i", "n", "g">>,
    <<"t", "o", "R", "e", "v", "e", "r", "s", "e", "d">>,
    <<"t", "o", "S", "o", "r", "t", "e", "d">>,
    <<"t", "o", "S", "p", "l", "i", "c", "e", "d">>,
    <<"t", "o", "S", "t", "r", "i", "n", "g">>,
    <<"u", "n", "s", "h", "i", "f", "t">>,
    <<"v", "a", "l", "u", "e", "s">>,
    <<"w", "i", "t", "h">> }

\* the own keys of a plain object
OwnKeys(value) == (DOMAIN value.v) \ {ProtoSlot}

\* a key that is an array index: a numeral without a leading zero
IsIndexKey(key) == IsNumeral(key) /\ (Len(key) = 1 \/ key[1] # "0")

\* the prototype of an object
Proto(value) ==
  CASE value.t = "prototype" -> Null
    [] value.t = "arrayprototype" -> ObjectPrototype
    [] value.t = "array" -> ArrayPrototype
    [] OTHER -> IF ProtoSlot \in DOMAIN value.v THEN value.v[ProtoSlot]
                ELSE ObjectPrototype

\* What a property lookup finds: the value (val) and where it is kept:
\* under the steps from the object the lookup started at ("here"), under
\* the steps from Object.prototype ("op"), or in no place that a call can
\* write to ("nowhere": a method, a length, or nothing found).
NotThere == [base |-> "nowhere", steps |-> <<>>, val |-> Undefined]
Fixed(x) == [base |-> "nowhere", steps |-> <<>>, val |-> x]

\* what an object inherits of what its prototype has (up): a place under
\* the prototype is a place under the object, one step further
Inherited(up) ==
  IF up.base = "here" THEN [up EXCEPT !.steps = <<Str(ProtoSlot)>> \o @] ELSE up

\* the data property key of value or of the nearest object on its prototype
\* chain that owns one; a hole of an array is no property
RECURSIVE Find(_, _, _)
Find(op, value, key) ==
  CASE value.t = "prototype" ->
         IF key \in DOMAIN op
         THEN [base |-> "op", steps |-> <<Str(key)>>, val |-> op[key]]
         ELSE NotThere
    [] value.t = "arrayprototype" ->
         IF key \in ArrayPrototypeMethods THEN Fixed(Function(key))
         ELSE IF key = LengthKey THEN Fixed(Num(0))
         ELSE Find(op, ObjectPrototype, key)
    [] value.t = "array" ->
         IF /\ IsIndexKey(key)
            /\ DigitsToNat(key) < Len(value.v)
            /\ value.v[DigitsToNat(key) + 1] # Undefined
         THEN [base |-> "here", steps |-> <<Num(DigitsToNat(key))>>,
               val |-> value.v[DigitsToNat(key) + 1]]
         ELSE IF key = LengthKey THEN Fixed(Num(Len(value.v)))
         ELSE Find(op, ArrayPrototype, key)
    [] value.t = "object" ->
         IF key \in OwnKeys(value)
         THEN [base |-> "here", steps |-> <<Str(key)>>, val |-> value.v[key]]
         ELSE Inherited(Find(op, Proto(value), key))
    [] OTHER -> NotThere

\* whether the lookup of "__proto__" from value ends at the accessor of
\* Object.prototype: no object on the way owns a property of that name and
\* the chain does not end before Object.prototype
RECURSIVE ReachesAccessor(_)
ReachesAccessor(value) ==
  CASE value.t = "object" ->
         ProtoKey \notin OwnKeys(value) /\ ReachesAccessor(Proto(value))
    [] value.t \in {"prototype", "arrayprototype", "array"} -> TRUE
    [] OTHER -> FALSE

\* a reference to Object.prototype is the place "op" whatever it was read
\* from
Shared(found) ==
  IF found.val.t = "prototype"
  THEN [base |-> "op", steps |-> <<>>, val |-> found.val]
  ELSE found

\* value[key]: what it finds and where
Lookup(op, value, key) ==
  Shared(IF key = ProtoKey /\ ReachesAccessor(value)
         THEN IF value.t = "object" /\ ProtoSlot \in DOMAIN value.v
              THEN [base |-> "here", steps |-> <<Str(ProtoSlot)>>,
                    val |-> Proto(value)]
              ELSE Fixed(Proto(value))
         ELSE Find(op, value, key))

\* value[key] for a string key
Prop(op, value, key) == Lookup(op, value, key).val

\* value[n] for a number n: the property named String(n)
Elem(op, value, n) == Lookup(op, value, NatText(n)).val

\* value[current], for a step whose kind matches the container
Index(op, value, current) ==
  IF TypeOf(current) = "number" THEN Elem(op, value, current.v)
  ELSE Prop(op, value, current.v)

\* where value[current] is kept
Locate(op, value, current) ==
  Lookup(op, value, IF TypeOf(current) = "number" THEN NatText(current.v)
                    ELSE current.v)

\* the properties f with f[key] = x
SetProp(f, key, x) == [k \in (DOMAIN f) \cup {key} |-> IF k = key THEN x ELSE f[k]]

\* the plain object after value[key] = x: an own property is created or
\* overwritten, except that "__proto__", when it is the accessor, replaces
\* the prototype if x is an object or null and is ignored for any other x
AssignProp(value, key, x) ==
  IF key = ProtoKey /\ ReachesAccessor(value)
  THEN IF TypeOf(x) = "object"
       THEN Obj(SetProp(value.v, ProtoSlot, x))
       ELSE value
  ELSE Obj(SetProp(value.v, key, x))

\* array with array[n] = x; assigning past the end leaves holes
SetElem(s, n, x) ==
  [i \in 1..Max({Len(s), n + 1}) |->
     IF i = n + 1 THEN x ELSE IF i <= Len(s) THEN s[i] ELSE Undefined]

\* the place of the document itself
Root == [base |-> "doc", steps |-> <<>>]

\* what a container keeps under a step of a place
Slot(value, step) ==
  IF value.t = "array" THEN value.v[step.v + 1] ELSE value.v[step.v]

RECURSIVE RawAt(_, _)
RawAt(value, steps) ==
  IF steps = <<>> THEN value ELSE RawAt(Slot(value, Head(steps)), Tail(steps))

\* the container with child under a step
WithSlot(value, step, child) ==
  IF value.t = "array" THEN Arr([value.v EXCEPT ![step.v + 1] = child])
  ELSE Obj([value.v EXCEPT ![step.v] = child])

RECURSIVE RawPut(_, _, _)
RawPut(value, steps, x) ==
  IF steps = <<>> THEN x
  ELSE WithSlot(value, Head(steps),
                RawPut(Slot(value, Head(steps)), Tail(steps), x))

\* the object kept at a place
At(doc, op, at) ==
  IF at.base = "doc" THEN RawAt(doc, at.steps)
  ELSE IF at.steps = <<>> THEN ObjectPrototype
  ELSE RawAt(Obj(op), at.steps)

\* the document and Object.prototype after the object kept at a place has
\* changed into x; the objects on the way are the same objects as before.
\* No such assignment throws.
Put(doc, op, at, x) ==
  [threw |-> FALSE,
   doc |-> IF at.base = "doc" THEN RawPut(doc, at.steps, x) ELSE doc,
   op  |-> IF at.base = "op" THEN RawPut(Obj(op), at.steps, x).v ELSE op]

\* the place of what was found from the object at a place
Rebase(at, found) ==
  IF found.base = "here" THEN [base |-> at.base, steps |-> at.steps \o found.steps]
  ELSE IF found.base = "op" THEN [base |-> "op", steps |-> found.steps]
  ELSE Root

(***************************************************************************)
(* getValueFromPath.                                                       *)
(***************************************************************************)
\* the reducer of getValueFromPath
GetStep(op, value, current) ==
  IF LooseUndefined(value) \/ TypeOf(value) # "object" THEN Undefined
  ELSE IF TypeOf(current) = "string" /\ ~IsArray(value) THEN Prop(op, value, current.v)
  ELSE IF TypeOf(current) = "number" /\ IsArray(value) THEN Elem(op, value, current.v)
  ELSE Undefined

\* fragments.reduce(reducer, value)
RECURSIVE GetReduce(_, _, _)
GetReduce(op, value, fragments) ==
  IF fragments = <<>> THEN value
  ELSE GetReduce(op, GetStep(op, value, Head(fragments)), Tail(fragments))

\* getValueFromPath(root, path): parseJsonPath is called outside the try
\* block, so its error propagates to the caller; no read inside the block
\* throws
getValueFromPath(op, r, p) ==
  LET parse == parseJsonPath(p)
  IN IF parse.threw THEN [threw |-> TRUE, value |-> Undefined]
     ELSE [threw |-> FALSE, value |-> GetReduce(op, r, parse.fragments)]

(***************************************************************************)
(* setValueFromPath.  The accumulator of the reduce is a reference into    *)
(* the document or into Object.prototype; the model keeps both (doc, op),  *)
(* the place of the referenced object (at) and the accumulator itself      *)
(* (value), and whether an error was caught (caught).                      *)
(***************************************************************************)
\* index === fragments.length - 1, with the model's 1-based index
IsLast(index, fragments) == index = Len(fragments)

\* NeedsContainer as it would be if any non-container slot were taken for a
\* missing one
NeedsContainerOrScalar(slot) == LooseUndefined(slot) \/ TypeOf(slot) # "object"

\* value[current] == undefined: the slot is to be filled with a container
NeedsContainer(slot) == LooseUndefined(slot)

\* the container assigned for a missing slot, chosen from the next fragment;
\* undefined stands for "neither branch taken, nothing assigned"
Materialize(next) ==
  IF TypeOf(next) = "number" THEN EmptyArr
  ELSE IF TypeOf(next) = "string" THEN EmptyObj
  ELSE Undefined

\* value[current] = x on the accumulator: the document and Object.prototype
\* after it, or the TypeError of Object.prototype, whose own prototype
\* cannot be replaced by an object.  (Array.prototype is never the
\* accumulator: only array["__proto__"] returns it, and no string step is
\* applied to an array.)
Assign(st, current, x) ==
  CASE st.value.t = "array" ->
         Put(st.doc, st.op, st.at, Arr(SetElem(st.value.v, current.v, x)))
    [] st.value.t = "object" ->
         Put(st.doc, st.op, st.at, AssignProp(st.value, current.v, x))
    [] st.value.t = "prototype" ->
         IF current.v = ProtoKey
         THEN [threw |-> TypeOf(x) = "object" /\ x # Null,
               doc |-> st.doc, op |-> st.op]
         ELSE [threw |-> FALSE, doc |-> st.doc,
               op |-> SetProp(st.op, current.v, x)]

\* the body of a matching branch (lines 106-114, 118-126)
Assigned(st, current, index, fragments, nv) ==
  IF IsLast(index, fragments) THEN Assign(st, current, nv)
  ELSE IF NeedsContainer(Index(st.op, st.value, current))
          /\ Materialize(fragments[index + 1]) # Undefined
       THEN Assign(st, current, Materialize(fragments[index + 1]))
  ELSE [threw |-> FALSE, doc |-> st.doc, op |-> st.op]

Dead(st) ==
  [doc |-> st.doc, op |-> st.op, at |-> Root, value |-> Undefined,
   caught |-> st.caught]

\* the catch block (line 133): the error of an assignment ends the reduce
Caught(st) ==
  [doc |-> st.doc, op |-> st.op, at |-> Root, value |-> Undefined,
   caught |-> TRUE]

\* return value[current] (lines 116, 128): the accumulator of the next step
\* is what the lookup found, in the document and Object.prototype the body
\* left (after)
Returned(st, after, found) ==
  [doc |-> after.doc, op |-> after.op, at |-> Rebase(st.at, found),
   value |-> found.val, caught |-> FALSE]

\* a matching branch, given what its body did (after)
Branch(st, current, after) ==
  IF after.threw THEN Caught(st)
  ELSE Returned(st, after,
                Locate(after.op, At(after.doc, after.op, st.at), current))

\* the reducer of setValueFromPath
SetStep(st, current, index, fragments, nv) ==
  IF LooseUndefined(st.value) \/ TypeOf(st.value) # "object" THEN Dead(st)
  ELSE IF \/ TypeOf(current) = "string" /\ ~IsArray(st.value)
          \/ TypeOf(current) = "number" /\ IsArray(st.value)
       THEN Branch(st, current, Assigned(st, current, index, fragments, nv))
  ELSE Dead(st)

\* fragments.reduce(reducer, root), from the step with the given index; an
\* error ends it in the catch block
RECURSIVE SetReduce(_, _, _, _)
SetReduce(st, index, fragments, nv) ==
  IF index > Len(fragments) \/ st.caught THEN st
  ELSE SetReduce(SetStep(st, fragments[index], index, fragments, nv),
                 index + 1, fragments, nv)

\* setValueFromPath(root, path, newValue): what it returns, the document
\* and the Object.prototype it leaves behind.  parseJsonPath is called
\* outside the try block, so its error propagates (SetWith); an error
\* inside the block is caught and undefined returned (lines 133-135).
SetOutcome(final) ==
  [threw |-> FALSE, value |-> final.value, doc |-> final.doc, op |-> final.op]

SetWith(op, r, parse, nv) ==
  IF parse.threw
  THEN [threw |-> TRUE, value |-> Undefined, doc |-> r, op |-> op]
  ELSE SetOutcome(SetReduce([doc |-> r, op |-> op, at |-> Root, value |-> r,
                             caught |-> FALSE],
                            1, parse.fragments, nv))

setValueFromPath(op, r, p, nv) == SetWith(op, r, parseJsonPath(p), nv)

(***************************************************************************)
(* normalizeValue.                                                         *)
(***************************************************************************)
VersionMismatchPath == <<"c", "l", "i", ".", "w", "a", "r", "n", "i", "n", "g", "s", ".", "v", "e", "r", "s", "i", "o", "n", "M", "i", "s", "m", "a", "t", "c", "h">>
TypescriptMismatchPath == <<"c", "l", "i", ".", "w", "a", "r", "n", "i", "n", "g", "s", ".", "t", "y", "p", "e", "s", "c", "r", "i", "p", "t", "M", "i", "s", "m", "a", "t", "c", "h">>
DefaultCollectionPath == <<"c", "l", "i", ".", "d", "e", "f", "a", "u", "l", "t", "C", "o", "l", "l", "e", "c", "t", "i", "o", "n">>
PackageManagerPath == <<"c", "l", "i", ".", "p", "a", "c", "k", "a", "g", "e", "M", "a", "n", "a", "g", "e", "r">>

\* validCliPaths.get(path): the kind registered for the path, "none" for
\* undefined
validCliPaths(p) ==
  CASE p = VersionMismatchPath -> "boolean"
    [] p = TypescriptMismatchPath -> "boolean"
    [] p = DefaultCollectionPath -> "string"
    [] p = PackageManagerPath -> "string"
    [] OTHER -> "none"

\* the characters String.prototype.trim removes: the white space and the
\* line terminators of the language (tab, line feed, vertical tab, form
\* feed, carriage return, space, no-break space, the Unicode space
\* separators, line and paragraph separator, byte order mark)
WhiteSpace ==
  { "\t", "\n", "U+000B", "\f", "\r", " ", "U+00A0", "U+1680", "U+2000",
    "U+2001", "U+2002", "U+2003", "U+2004", "U+2005", "U+2006", "U+2007",
    "U+2008", "U+2009", "U+200A", "U+2028", "U+2029", "U+202F", "U+205F",
    "U+3000", "U+FEFF" }

\* text without its leading characters of the set blanks
RECURSIVE StripStart(_, _)
StripStart(text, blanks) ==
  IF text # <<>> /\ Head(text) \in blanks THEN StripStart(Tail(text), blanks)
  ELSE text

\* text without its trailing characters of the set blanks
RECURSIVE StripEnd(_, _)
StripEnd(text, blanks) ==
  IF text # <<>> /\ text[Len(text)] \in blanks
  THEN StripEnd(SubSeq(text, 1, Len(text) - 1), blanks) ELSE text

\* str.trim()
TrimStart(text) == StripStart(text, WhiteSpace)
TrimEnd(text) == StripEnd(text, WhiteSpace)
Trim(text) == TrimEnd(TrimStart(text))

\* str.startsWith(prefix)
StartsWith(text, prefix) ==
  Len(text) >= Len(prefix) /\ SubSeq(text, 1, Len(prefix)) = prefix

TrueText == <<"t", "r", "u", "e">>
FalseText == <<"f", "a", "l", "s", "e">>

\* '' + value, for the values the command line yields (Value of the
\* command's schema: a string, a boolean or a number)
ToText(value) ==
  CASE value.t = "string" -> value.v
    [] value.t = "boolean" -> (IF value.v THEN TrueText ELSE FalseText)
    [] value.t = "number" -> NatText(value.v)
    [] value.t = "null" -> <<"n", "u", "l", "l">>
    [] value.t = "undefined" -> <<"u", "n", "d", "e", "f", "i", "n", "e", "d">>

\* the blanks parseJson skips around a value
JsonBlanks == {" ", "\t", "\n", "\r", "\f"}

\* parseJson(text, JsonParseMode.Loose) of @angular-devkit/core, on the
\* texts of the model: the JSON literals, numerals and empty containers
\* parse; an empty text or an unterminated object ends the input
\* unexpectedly; any other text has an invalid character
parseJson(text) ==
  LET t == StripEnd(StripStart(text, JsonBlanks), JsonBlanks)
  IN CASE t = TrueText -> [threw |-> FALSE, error |-> "none", value |-> Bool(TRUE)]
       [] t = FalseText -> [threw |-> FALSE, error |-> "none", value |-> Bool(FALSE)]
       [] t = <<"n", "u", "l", "l">> -> [threw |-> FALSE, error |-> "none", value |-> Null]
       [] IsNumeral(t) -> [threw |-> FALSE, error |-> "none", value |-> Num(DigitsToNat(t))]
       [] t = <<"{", "}">> -> [threw |-> FALSE, error |-> "none", value |-> EmptyObj]
       [] t = <<"[", "]">> -> [threw |-> FALSE, error |-> "none", value |-> EmptyArr]
       [] t = <<>> \/ (t # <<>> /\ t[1] = "{" /\ t # <<"{", "}">>) ->
            [threw |-> TRUE, error |-> "UnexpectedEndOfInputException", value |-> Undefined]
       [] OTHER ->
            [threw |-> TRUE, error |-> "InvalidJsonCharacterException", value |-> Undefined]

InvalidType == [threw |-> TRUE, error |-> "Invalid value type", value |-> Undefined]
Returns(value) == [threw |-> FALSE, error |-> "none", value |-> value]

\* the lenient parse of a path that is not registered (lines 162-174)
LenientCase(value) ==
  IF value.t = "string"
  THEN LET parse == parseJson(value.v)
       IN IF ~parse.threw THEN parse
          ELSE IF parse.error = "InvalidJsonCharacterException"
                  /\ ~StartsWith(value.v, <<"{">>)
               THEN Returns(value)
          ELSE parse
  ELSE Returns(value)

\* BooleanCase as it would be if a text that is neither "true" nor "false"
\* went on to the lenient parse instead of the error
BooleanCaseLenient(value) ==
  IF Trim(ToText(value)) = TrueText THEN Returns(Bool(TRUE))
  ELSE IF Trim(ToText(value)) = FalseText THEN Returns(Bool(FALSE))
  ELSE LenientCase(value)

\* the 'boolean' case of the switch with the throw that follows its break
\* (lines 142-148, 159)
BooleanCase(value) ==
  IF Trim(ToText(value)) = TrueText THEN Returns(Bool(TRUE))
  ELSE IF Trim(ToText(value)) = FalseText THEN Returns(Bool(FALSE))
  ELSE InvalidType

\* normalizeValue(value, path).  No path is registered with kind 'number',
\* so that case of the switch is never entered.
normalizeValue(value, p) ==
  CASE validCliPaths(p) = "boolean" -> BooleanCase(value)
    [] validCliPaths(p) = "string" -> Returns(value)
    [] OTHER -> LenientCase(value)


(***************************************************************************)
(* Inputs of the model.                                                    *)
(***************************************************************************)
\* the characters path strings are built from: a name character, a digit
\* and the three characters the parser gives a meaning to
Alphabet == {"a", "0", ".", "[", "]"}

\* every string over the alphabet of at most MaxPathLen characters
Paths == UNION {[1..n -> Alphabet] : n \in 0..MaxPathLen}

\* paths with a line terminator after an opening bracket
LinePaths ==
  { <<"a", "[", "\n", "]">>,
    <<"a", "[", "0", "]", "\r", "[", "0", "]">>,
    <<"a", "[", "0", "U+2028", "]">>,
    <<"a", "\n", "[", "0", "]">> }

\* paths with a step that names a member of Object.prototype
PrototypePaths ==
  { <<"c", "o", "n", "s", "t", "r", "u", "c", "t", "o", "r">>,
    <<"c", "o", "n", "s", "t", "r", "u", "c", "t", "o", "r", ".", "a">>,
    <<"a", ".", "c", "o", "n", "s", "t", "r", "u", "c", "t", "o", "r", ".", "a">>,
    <<"a", ".", "t", "o", "S", "t", "r", "i", "n", "g", ".", "a">>,
    <<"a", ".", "_", "_", "d", "e", "f", "i", "n", "e", "G", "e", "t", "t", "e", "r", "_", "_", ".", "a">>,
    <<"_", "_", "p", "r", "o", "t", "o", "_", "_">>,
    <<"_", "_", "p", "r", "o", "t", "o", "_", "_", ".", "a">>,
    <<"a", ".", "_", "_", "p", "r", "o", "t", "o", "_", "_", ".", "a">>,
    <<"_", "_", "p", "r", "o", "t", "o", "_", "_", ".", "_", "_", "p", "r", "o", "t", "o", "_", "_", ".", "a">> }

\* the example of the parser's documentation, "a[3].foo.bar[2]"
ExamplePath ==
  <<"a", "[", "3", "]", ".", "f", "o", "o", ".", "b", "a", "r", "[", "2", "]">>

KeyA == <<"a">>
Key0 == <<"0">>

\* {key: x}
Single(key, x) == Obj([k \in {key} |-> x])

\* the documents the accessors are applied to (object and array roots)
Docs ==
  { EmptyObj,
    Single(KeyA, Num(1)),
    Single(KeyA, Null),
    Single(KeyA, Str(KeyA)),
    Single(KeyA, Bool(TRUE)),
    Single(KeyA, EmptyObj),
    Single(KeyA, Single(KeyA, Num(1))),
    Single(KeyA, Single(Key0, Num(1))),
    Single(KeyA, Single(KeyA, Null)),
    Single(KeyA, Arr(<<Num(1), Num(2)>>)),
    Obj([k \in {KeyA, Key0} |-> IF k = KeyA THEN Num(1) ELSE Num(2)]),
    Arr(<<Num(1)>>),
    Arr(<<Single(KeyA, Num(1))>>) }

\* the values written
Values == {Num(5), Null, Single(KeyA, Num(7)), Arr(<<Num(1)>>)}

NoCall == [threw |-> FALSE, value |-> Undefined]
NoParse == [threw |-> FALSE, fragments |-> <<>>]
NoWorkspace == [found |-> FALSE, config |-> Undefined]
NoNormalize == [threw |-> FALSE, error |-> "none", value |-> Undefined]

\* what JSON.stringify emits of a value: the own properties of objects
\* (those holding undefined or a function left out) and the elements of
\* arrays (undefined and functions emitted as null)
RECURSIVE JsonView(_)
JsonView(value) ==
  IF value.t = "object"
  THEN Obj([k \in {o \in OwnKeys(value) : value.v[o].t \notin {"undefined", "function"}} |->
              JsonView(value.v[k])])
  ELSE IF value.t = "array"
  THEN Arr([i \in 1..Len(value.v) |->
              IF value.v[i].t \in {"undefined", "function"} THEN Null
              ELSE JsonView(value.v[i])])
  ELSE value

\* JSON.stringify(configValue, null, 2): the text that serializes doc
JsonStringify(doc) == [textOf |-> JsonView(doc)]

\* the configuration file: how often ConfigCommand.set wrote it and what it
\* holds
FileOf(doc) == [writes |-> 0, content |-> JsonStringify(doc)]

\* the variables of ConfigCommand, at rest
CommandIdle ==
  /\ raw = Undefined /\ global = FALSE /\ workspace = NoWorkspace
  /\ schemaOk = "unknown" /\ normalized = NoNormalize
  /\ file = FileOf(Undefined) /\ exit = "running" /\ stages = <<>>

commandVars == <<raw, global, workspace, schemaOk, normalized, file, exit, stages>>

(***************************************************************************)
(* Specification of the parser alone: a path is drawn, then parsed.        *)
(***************************************************************************)
InitParse ==
  /\ pc = "start"
  /\ path \in Paths \cup LinePaths \cup {ExamplePath}
  /\ root = EmptyObj /\ root0 = EmptyObj /\ newValue = Null
  /\ objectPrototype = ObjectPrototypeMembers
  /\ parsed = NoParse /\ getResult = NoCall /\ setResult = NoCall
  /\ CommandIdle

\* a call of parseJsonPath(path)
Parse ==
  /\ pc = "start"
  /\ parsed' = parseJsonPath(path)
  /\ pc' = "parsed"
  /\ UNCHANGED <<path, root, root0, objectPrototype, newValue, getResult,
                 setResult, commandVars>>

NextParse == Parse

SpecParse == InitParse /\ [][NextParse]_vars

(***************************************************************************)
(* Specification of the accessors: a document, a path and a value are      *)
(* drawn; the caller reads the path, or writes it and then reads it back.  *)
(***************************************************************************)
Init ==
  /\ pc = "start"
  /\ path \in Paths
  /\ root \in Docs /\ root0 = root
  /\ objectPrototype = ObjectPrototypeMembers
  /\ newValue \in Values
  /\ parsed = NoParse /\ getResult = NoCall /\ setResult = NoCall
  /\ CommandIdle

\* a call of getValueFromPath(root, path)
Get ==
  /\ pc \in {"start", "written"}
  /\ getResult' = getValueFromPath(objectPrototype, root, path)
  /\ pc' = IF pc = "start" THEN "read" ELSE "reread"
  /\ UNCHANGED <<path, root, root0, objectPrototype, newValue, parsed,
                 setResult, commandVars>>

\* a call of setValueFromPath(root, path, newValue); root0 keeps the
\* document as it was when the call was made
Set ==
  /\ pc = "start"
  /\ LET call == setValueFromPath(objectPrototype, root, path, newValue)
     IN /\ setResult' = [threw |-> call.threw, value |-> call.value]
        /\ root' = call.doc
        /\ objectPrototype' = call.op
  /\ root0' = root
  /\ pc' = "written"
  /\ UNCHANGED <<path, newValue, parsed, getResult, commandVars>>

Next == Get \/ Set

Spec == Init /\ [][Next]_vars

(***************************************************************************)
(* The same calls, with paths that name members of Object.prototype.       *)
(***************************************************************************)
InitMembers ==
  /\ pc = "start"
  /\ path \in PrototypePaths
  /\ root \in Docs /\ root0 = root
  /\ objectPrototype = ObjectPrototypeMembers
  /\ newValue \in Values
  /\ parsed = NoParse /\ getResult = NoCall /\ setResult = NoCall
  /\ CommandIdle

SpecMembers == InitMembers /\ [][Next]_vars

(***************************************************************************)
(* ConfigCommand, statement by statement.  The command is synchronous: pc  *)
(* is the statement it has reached, stages the stages of ConfigCommand.set *)
(* it has run.                                                             *)
(***************************************************************************)
SchematicsPrefix == <<"s", "c", "h", "e", "m", "a", "t", "i", "c", "s", ".">>
CliKey == <<"c", "l", "i">>

\* the words given as options.jsonPath
CmdPaths ==
  { VersionMismatchPath, TypescriptMismatchPath, PackageManagerPath,
    <<"s", "c", "h", "e", "m", "a", "t", "i", "c", "s", ".", "a">>, <<"a">>, <<"a", ".", "a">>, <<"a", "[", "0", "]">>,
    <<"a", ".", ".", "a">>, <<" ">>, <<"\r">>, <<>>,
    ProtoKey, <<"_", "_", "p", "r", "o", "t", "o", "_", "_", ".", "a">> }

\* the values given as options.value; undefined when none is given
RawValues ==
  { Str(TrueText), Str(<<" ">> \o TrueText \o <<" ">>), Str(<<"\t">> \o FalseText),
    Str(TrueText \o <<"\r">>), Str(<<"U+00A0">> \o FalseText \o <<"\f">>),
    Str(<<"T", "r", "u", "e">>), Str(FalseText), Str(<<"m", "a", "y", "b", "e">>),
    Str(<<"4", "2">>), Str(<<"{", "a">>), Str(<<>>), Bool(TRUE), Bool(FALSE),
    Num(0), Num(42), Undefined }

\* what getWorkspace and getWorkspaceRaw find: no configuration, or a
\* configuration document
Workspaces ==
  { NoWorkspace,
    [found |-> TRUE, config |-> EmptyObj],
    [found |-> TRUE, config |-> Single(KeyA, Num(1))],
    [found |-> TRUE, config |-> Single(CliKey, Num(1))],
    [found |-> TRUE, config |-> Single(CliKey, EmptyObj)] }

\* the global configurations migrateLegacyGlobalConfig can leave behind
\* when it reports a migration
Migrations == {w \in Workspaces : w.found}

\* options.value || '': the empty string for a falsy value
ValueOrEmpty(value) ==
  IF value \in {Undefined, Null, Bool(FALSE), Num(0), Str(<<>>)} THEN Str(<<>>)
  ELSE value

\* !options.jsonPath || !options.jsonPath.trim()
BlankPath(p) == p = <<>> \/ Trim(p) = <<>>

\* validCliPaths.has(path)
HasCliPath(p) == validCliPaths(p) # "none"

InitCmd ==
  /\ pc = "start"
  /\ path \in CmdPaths
  /\ raw \in RawValues
  /\ global \in BOOLEAN
  /\ workspace \in Workspaces
  /\ file = FileOf(workspace.config)
  /\ objectPrototype = ObjectPrototypeMembers
  /\ root = Undefined /\ root0 = Undefined /\ newValue = Undefined
  /\ parsed = NoParse /\ getResult = NoCall /\ setResult = NoCall
  /\ schemaOk = "unknown" /\ normalized = NoNormalize
  /\ exit = "running" /\ stages = <<>>

\* lines 178-207, ConfigCommand.run: the configuration is looked up; a
\* global command without one calls migrateLegacyGlobalConfig, which
\* reports a migration (a global configuration now exists and is read
\* again), reports none, or throws into the empty catch block; then the
\* command reads (no value given) or writes
Run ==
  /\ pc = "start"
  /\ \E config \in (IF global /\ ~workspace.found
                    THEN Migrations \cup {workspace} ELSE {workspace}) :
        /\ workspace' = config
        /\ file' = IF config = workspace THEN file ELSE FileOf(config.config)
        /\ IF LooseUndefined(raw)
           THEN IF ~config.found THEN exit' = "returned 1" /\ pc' = "done"
                ELSE pc' = "get" /\ UNCHANGED exit
           ELSE pc' = "check" /\ UNCHANGED exit
  /\ UNCHANGED <<path, root, root0, objectPrototype, newValue, parsed, getResult,
                 setResult, raw, global, schemaOk, normalized, stages>>

\* lines 209-228, ConfigCommand.get: the value under the path, or the whole
\* configuration when no path is given
GetCmd ==
  /\ pc = "get"
  /\ LET call == IF path # <<>>
                 THEN getValueFromPath(objectPrototype, workspace.config, path)
                 ELSE [threw |-> FALSE, value |-> workspace.config]
     IN /\ getResult' = call
        /\ exit' = IF call.threw THEN "threw"
                   ELSE IF call.value = Undefined THEN "returned 1"
                   ELSE "returned 0"
  /\ pc' = "done"
  /\ UNCHANGED <<path, root, root0, objectPrototype, newValue, parsed, setResult,
                 raw, global, workspace, schemaOk, normalized, file, stages>>

\* lines 231-248: the path checks and the load of the raw workspace
Load ==
  /\ pc = "check"
  /\ IF BlankPath(path)
        \/ (global /\ ~StartsWith(path, SchematicsPrefix) /\ ~HasCliPath(path))
     THEN /\ exit' = "threw" /\ pc' = "done" /\ UNCHANGED root
     ELSE IF ~workspace.found
     THEN /\ exit' = "returned 1" /\ pc' = "done" /\ UNCHANGED root
     ELSE /\ root' = workspace.config /\ pc' = "normalize" /\ UNCHANGED exit
  /\ UNCHANGED <<path, root0, objectPrototype, newValue, parsed, getResult,
                 setResult, raw, global, workspace, schemaOk, normalized, file,
                 stages>>

\* line 250: const value = normalizeValue(options.value || '', options.jsonPath)
Normalize ==
  /\ pc = "normalize"
  /\ stages' = Append(stages, "normalize")
  /\ LET call == normalizeValue(ValueOrEmpty(raw), path)
     IN /\ normalized' = call
        /\ IF call.threw
           THEN /\ exit' = "threw" /\ pc' = "done" /\ UNCHANGED newValue
           ELSE /\ newValue' = call.value /\ pc' = "set" /\ UNCHANGED exit
  /\ UNCHANGED <<path, root, root0, objectPrototype, parsed, getResult, setResult,
                 raw, global, workspace, schemaOk, file>>

\* lines 251-257: the write into the in-memory document
SetInMemory ==
  /\ pc = "set"
  /\ stages' = Append(stages, "set")
  /\ LET call == setValueFromPath(objectPrototype, root, path, newValue)
     IN /\ setResult' = [threw |-> call.threw, value |-> call.value]
        /\ root' = call.doc
        /\ objectPrototype' = call.op
        /\ IF call.threw THEN exit' = "threw" /\ pc' = "done"
           ELSE IF call.value = Undefined THEN exit' = "returned 1" /\ pc' = "done"
           ELSE pc' = "validate" /\ UNCHANGED exit
  /\ root0' = root
  /\ UNCHANGED <<path, newValue, parsed, getResult, raw, global, workspace,
                 schemaOk, normalized, file>>

\* Validate as it would be if the catch block did not return
ValidateWithoutReturn ==
  /\ pc = "validate"
  /\ stages' = Append(stages, "validate")
  /\ \E verdict \in {"valid", "invalid"} : schemaOk' = verdict
  /\ pc' = "persist"
  /\ UNCHANGED <<path, root, root0, objectPrototype, newValue, parsed, getResult,
                 setResult, raw, global, workspace, normalized, file, exit>>

\* lines 259-265: validateWorkspace(configValue) accepts the document or
\* throws; which, the schema decides
Validate ==
  /\ pc = "validate"
  /\ stages' = Append(stages, "validate")
  /\ \E verdict \in {"valid", "invalid"} :
        /\ schemaOk' = verdict
        /\ IF verdict = "invalid" THEN exit' = "returned 1" /\ pc' = "done"
           ELSE pc' = "persist" /\ UNCHANGED exit
  /\ UNCHANGED <<path, root, root0, objectPrototype, newValue, parsed, getResult,
                 setResult, raw, global, workspace, normalized, file>>

\* lines 267-270: the write of the file
Persist ==
  /\ pc = "persist"
  /\ stages' = Append(stages, "persist")
  /\ file' = [writes |-> file.writes + 1, content |-> JsonStringify(root)]
  /\ exit' = "returned 0"
  /\ pc' = "done"
  /\ UNCHANGED <<path, root, root0, objectPrototype, newValue, parsed, getResult,
                 setResult, raw, global, workspace, schemaOk, normalized>>

NextCmd == Run \/ GetCmd \/ Load \/ Normalize \/ SetInMemory \/ Validate \/ Persist

SpecCmd == InitCmd /\ [][NextCmd]_vars

(***************************************************************************)
(* The path grammar and the reference walk of the design document, used to *)
(* state what the parser and the accessors are claimed to compute.         *)
(***************************************************************************)
\* the name of a segment: what precedes its first "["
SegmentName(seg) ==
  LET opens == {i \in 1..Len(seg) : seg[i] = "["}
  IN IF opens = {} THEN seg ELSE SubSeq(seg, 1, Min(opens) - 1)

\* the contents of the bracketed groups of rest, [ok, groups]; rest must be
\* a sequence of groups "[...]" and nothing else
RECURSIVE Groups(_)
Groups(rest) ==
  IF rest = <<>> THEN [ok |-> TRUE, groups |-> <<>>]
  ELSE LET closes == {i \in 1..Len(rest) : rest[i] = "]"}
       IN IF rest[1] # "[" \/ closes = {} THEN [ok |-> FALSE, groups |-> <<>>]
          ELSE LET more == Groups(Tail_(rest, Min(closes) + 1))
               IN [ok |-> more.ok,
                   groups |-> <<SubSeq(rest, 2, Min(closes) - 1)>> \o more.groups]

\* a segment of the grammar: name(index)*, the name non-empty and free of
\* brackets, every index a numeral
SegmentOk(seg) ==
  LET name == SegmentName(seg)
      gs   == Groups(Tail_(seg, Len(name) + 1))
  IN /\ name # <<>>
     /\ \A i \in 1..Len(name) : name[i] \notin {"[", "]"}
     /\ gs.ok
     /\ \A i \in 1..Len(gs.groups) : IsNumeral(gs.groups[i])

\* a non-empty path all of whose segments are segments of the grammar
IsValidPath(p) ==
  /\ p # <<>>
  /\ \A i \in 1..Len(SplitDots(p)) : SegmentOk(SplitDots(p)[i])

\* a path with a non-empty segment that is not a segment of the grammar
IsMalformedPath(p) ==
  \E i \in 1..Len(SplitDots(p)) :
    SplitDots(p)[i] # <<>> /\ ~SegmentOk(SplitDots(p)[i])

\* the steps of a valid segment: a key-step (a string) for the name, then an
\* index-step (an integer) per bracketed group
SegmentRefSteps(seg) ==
  LET name == SegmentName(seg)
      gs   == Groups(Tail_(seg, Len(name) + 1)).groups
  IN <<Str(name)>> \o [i \in 1..Len(gs) |-> Num(DigitsToNat(gs[i]))]

RECURSIVE ConcatSteps(_)
ConcatSteps(segs) ==
  IF segs = <<>> THEN <<>>
  ELSE SegmentRefSteps(Head(segs)) \o ConcatSteps(Tail(segs))

\* the steps of a valid path
RefSteps(p) == ConcatSteps(SplitDots(p))

IsContainer(value) == value.t \in {"array", "object"}

\* the entry of a mapping under a key, NotFound (undefined) without one
Entry(value, key) == IF key \in OwnKeys(value) THEN value.v[key] ELSE Undefined

\* the item of a sequence at a position (0-based), NotFound without one
Item(value, n) == IF n + 1 \in 1..Len(value.v) THEN value.v[n + 1] ELSE Undefined

\* a document reduced to its entries: what JSON can express of it
RECURSIVE Entries(_)
Entries(value) ==
  IF value.t = "object" THEN Obj([k \in OwnKeys(value) |-> Entries(value.v[k])])
  ELSE IF value.t = "array" THEN Arr([i \in 1..Len(value.v) |-> Entries(value.v[i])])
  ELSE value

\* one step of the reference walk: a key-step descends into a mapping, an
\* index-step into a sequence, anything else is NotFound (undefined)
RefStep(value, step) ==
  IF ~IsContainer(value) THEN Undefined
  ELSE IF step.t = "string" /\ value.t = "object" THEN Entry(value, step.v)
  ELSE IF step.t = "number" /\ value.t = "array" THEN Item(value, step.v)
  ELSE Undefined

RECURSIVE RefGet(_, _)
RefGet(value, steps) ==
  IF steps = <<>> THEN value ELSE RefGet(RefStep(value, Head(steps)), Tail(steps))

\* the path without its empty segments
RECURSIVE JoinNonEmpty(_)
JoinNonEmpty(segs) ==
  IF segs = <<>> THEN <<>>
  ELSE LET rest == JoinNonEmpty(Tail(segs))
       IN IF Head(segs) = <<>> THEN rest
          ELSE IF rest = <<>> THEN Head(segs)
          ELSE Head(segs) \o <<".">> \o rest

Squeeze(p) == JoinNonEmpty(SplitDots(p))

Prefix(seq, n) == SubSeq(seq, 1, n)

(***************************************************************************)
(* Claims about parseJsonPath (checked under SpecParse).                   *)
(***************************************************************************)
\* C4: for a valid path, parseJsonPath returns, segment by segment, a
\* key-step (string) for the name followed by an integer index-step per
\* bracketed group; "a[3].foo.bar[2]" gives ["a", 3, "foo", "bar", 2].
C4_ParseEmitsTypedSteps ==
  (pc = "parsed" /\ IsValidPath(path)) =>
     /\ ~parsed.threw
     /\ parsed.fragments = RefSteps(path)
     /\ (path = ExamplePath =>
           parsed.fragments =
             <<Str(<<"a">>), Num(3), Str(<<"f", "o", "o">>), Str(<<"b", "a", "r">>), Num(2)>>)

\* C7: empty segments give no step and no error: "" parses to no steps,
\* and a path parses as the path without its empty segments does.
C7_EmptySegmentsDropped ==
  pc = "parsed" =>
     /\ (path = <<>> => parsed = [threw |-> FALSE, fragments |-> <<>>])
     /\ parsed = parseJsonPath(Squeeze(path))

\* C10: a path with a malformed segment (non-numeric index, no name before
\* a bracket, unbalanced or trailing text after brackets) is rejected.
C10_MalformedRejected ==
  (pc = "parsed" /\ IsMalformedPath(path)) => parsed.threw

(***************************************************************************)
(* Claims about getValueFromPath and setValueFromPath (checked under Spec  *)
(* and SpecMembers).                                                       *)
(***************************************************************************)
SetSucceeded == ~setResult.threw /\ setResult.value # Undefined
SetNotFound  == ~setResult.threw /\ setResult.value = Undefined

\* C1: when setValueFromPath succeeded (returned something other than
\* undefined), getValueFromPath with the same path on the resulting
\* document returns the value written.
C1_WriteThenRead ==
  (pc = "reread" /\ SetSucceeded) =>
     getResult = [threw |-> FALSE, value |-> newValue]

\* C2: when setValueFromPath returns undefined, the document has the
\* entries it had before the call: nothing assigned, nothing materialized.
C2_FailureHasNoEffect ==
  (pc \in {"written", "reread"} /\ SetNotFound) => Entries(root) = Entries(root0)

\* the value in the slot addressed by step i of the path, before the call
SlotBefore(i) ==
  GetReduce(ObjectPrototypeMembers, root0, Prefix(parseJsonPath(path).fragments, i))
\* and after it
SlotAfter(i) ==
  GetReduce(objectPrototype, root, Prefix(parseJsonPath(path).fragments, i))

NonFinalSteps == 1..(Len(parseJsonPath(path).fragments) - 1)

\* C3 as stated: a non-final slot holding null, a boolean, a number or a
\* string makes the call return undefined and keeps its value.
C3_NoTunnelIncludingNull ==
  (pc = "written" /\ ~setResult.threw) =>
     \A i \in NonFinalSteps :
        SlotBefore(i).t \in {"null", "boolean", "number", "string"} =>
           setResult.value = Undefined /\ SlotAfter(i) = SlotBefore(i)

\* C3, amended: a non-final slot holding a boolean, a number or a string
\* makes the call return undefined and keeps that value, the document and
\* Object.prototype.
C3_NoTunnelThroughScalar ==
  (pc = "written" /\ ~setResult.threw) =>
     \A i \in NonFinalSteps :
        SlotBefore(i).t \in {"boolean", "number", "string"} =>
           /\ setResult.value = Undefined
           /\ SlotAfter(i) = SlotBefore(i)
           /\ root = root0
           /\ objectPrototype = ObjectPrototypeMembers

C3_Witness ==
  /\ pc = "written" /\ ~setResult.threw
  /\ \E i \in NonFinalSteps : SlotBefore(i).t \in {"boolean", "number", "string"}
  /\ setResult.value = Undefined /\ root = root0

\* C5: for a valid path getValueFromPath returns what the reference walk
\* over the path's steps returns (an index-step over a sequence descends
\* into the addressed element).
C5_GetIsReferenceWalk ==
  (pc = "read" /\ IsValidPath(path)) =>
     getResult = [threw |-> FALSE, value |-> RefGet(root, RefSteps(path))]

\* C9: where a non-final step of a successful set found nothing, the
\* document now holds an array there if the next step is an index-step and
\* an object if it is a key-step.
C9_MaterializesByNextStep ==
  (pc = "written" /\ IsValidPath(path) /\ SetSucceeded) =>
     \A i \in 1..(Len(RefSteps(path)) - 1) :
        SlotBefore(i) = Undefined =>
           SlotAfter(i).t =
             (IF RefSteps(path)[i + 1].t = "number" THEN "array" ELSE "object")

(***************************************************************************)
(* Claims about ConfigCommand.set and normalizeValue (checked under        *)
(* SpecCmd).                                                               *)
(***************************************************************************)
\* the command was given a value: run calls set
RunsSet == ~LooseUndefined(raw)

IsPrefixOf(short, long) ==
  Len(short) <= Len(long) /\ SubSeq(long, 1, Len(short)) = short

\* C6: the stages run in the order normalize, set, validate, persist; the
\* file is written only when normalization returned, the set returned a
\* defined value and the validation accepted; every other run of set ends
\* with exit code 1 or a thrown error and the file as set found it.
C6_PersistOnlyAfterAllStages ==
  /\ IsPrefixOf(stages, <<"normalize", "set", "validate", "persist">>)
  /\ file.writes > 0 =>
        /\ file.writes = 1
        /\ ~normalized.threw /\ normalized # NoNormalize
        /\ ~setResult.threw /\ setResult.value # Undefined
        /\ schemaOk = "valid"
        /\ stages = <<"normalize", "set", "validate", "persist">>
  /\ (pc = "done" /\ RunsSet /\ file.writes = 0) =>
        /\ exit \in {"returned 1", "threw"}
        /\ file = FileOf(workspace.config)
  /\ (pc = "done" /\ (normalized.threw \/ setResult.threw \/ schemaOk = "invalid"
                      \/ (Len(stages) >= 2 /\ setResult.value = Undefined))) =>
        file.writes = 0

C6_Witness ==
  /\ pc = "done" /\ file.writes = 1 /\ exit = "returned 0"
  /\ file.content # FileOf(workspace.config).content

\* C8: for a path registered as boolean, normalizeValue returns true when
\* the trimmed text of its argument is exactly "true", false when it is
\* exactly "false", and throws the invalid-type error otherwise.
C8_BooleanPathsAreStrict ==
  (Len(stages) >= 1 /\ path \in {VersionMismatchPath, TypescriptMismatchPath}) =>
     LET text == Trim(ToText(ValueOrEmpty(raw)))
     IN /\ text = <<"t", "r", "u", "e">> => normalized = Returns(Bool(TRUE))
        /\ text = <<"f", "a", "l", "s", "e">> => normalized = Returns(Bool(FALSE))
        /\ text \notin {<<"t", "r", "u", "e">>, <<"f", "a", "l", "s", "e">>} =>
              normalized = InvalidType
        /\ raw = Str(<<"4", "2">>) => normalized.threw
        /\ raw = Str(<<"T", "r", "u", "e">>) => normalized.threw
        /\ raw = Str(<<" ", "t", "r", "u", "e", " ">>) => normalized.value = Bool(TRUE)

C8_Witness ==
  /\ Len(stages) >= 1 /\ path = VersionMismatchPath
  /\ raw = Str(<<"T", "r", "u", "e">>) /\ normalized.threw

====
